---- MODULE Spec2Model ----
(***************************************************************************)
(* CryptoMonitor: the PriceMonitor engine (app/services/price_monitor.py)  *)
(* and its Observable base class (app/models/observer.py) as a state       *)
(* machine.  One action is one run of a coroutine between two suspension   *)
(* points of the asyncio event loop: start() has no await and is one       *)
(* action; stop() suspends once, in "await self._task"; the monitoring     *)
(* task suspends in the price fetch, in every observer.update and in the   *)
(* sleep.  Everything a coroutine does between two suspensions (the whole   *)
(* for-loop over the coins, the statistics) happens inside one action.     *)
(*                                                                         *)
(* Prices are small naturals; price 0 stands for 0.0, the value stored     *)
(* when the response has no "usd" field.  A tick is modelled by its price: *)
(* ticks of one coin are created in different cycles, so their timestamps  *)
(* order them as the buffer does.                                          *)
(***************************************************************************)
EXTENDS Integers, Sequences, FiniteSets, TLC

\* ---------------------------------------------------------------- bounds
NumCoins     == 2      \* len(settings.crypto_id_list); coin i is crypto_ids[i]
MaxPrice     == 2      \* prices are 0..MaxPrice
NumObservers == 2      \* observer objects that may ever register
MaxTasks     == 3      \* monitoring tasks ever created by start()
MaxCallers   == 2      \* coroutines that may be inside stop() at once
Capacity     == 2      \* settings.STATISTICS_BUFFER_SIZE (deque maxlen)
Threshold    == 50     \* settings.PRICE_CHANGE_THRESHOLD_PERCENT
LiveTasks    == 1      \* tasks created under the fair specification
HistLen      == 21     \* longest buffer the statistics are computed from in StatsSpec
NumHandlers  == 3      \* observer objects that may ever register in ChurnSpec
ChurnCycles  == 2      \* cycles the engine runs in ChurnSpec

\* ------------------------------------------------------ program constants
StatsMinLen == 2       \* _calculate_statistics: len(history) < 2 is skipped
NumSlots    == 8       \* slots of the hash table of a small set (PySet_MINSIZE)
LinearProbes == 9      \* slots probed in a row behind a slot (LINEAR_PROBES)
SmaWindow   == 20      \* _calculate_statistics: sma_20 and ema_20 need len(df) >= 20
VolMinLen   == 5       \* _calculate_statistics: volatility_24h needs len(df) >= 5

Coins     == 1..NumCoins
Prices    == 0..MaxPrice
Observers == 1..NumObservers
TaskIds   == 1..MaxTasks
Callers   == 1..MaxCallers
Slots     == 0..(NumSlots - 1)

None    == 0           \* self._task is None
Unused  == 0           \* a slot of the set's table that was never used
Dummy   == -1          \* a slot of the set's table whose entry was discarded
NoTick  == -1          \* coin_id not in self.latest_ticks
Absent  == -1          \* coin_id not in price_data

\* StatisticsModel as stored in latest_stats; set = FALSE: coin_id not in
\* latest_stats. sma_20, ema_20 and volatility_24h tell whether the field holds
\* a number (TRUE) or None (FALSE).
NoStats == [set |-> FALSE, current_price |-> 0, sma_20 |-> FALSE, ema_20 |-> FALSE,
            volatility_24h |-> FALSE]

VARIABLES
    is_running,     \* PriceMonitor.is_running
    task,           \* PriceMonitor._task: None or the id of a task
    latest_ticks,   \* PriceMonitor.latest_ticks: coin -> price or NoTick
    price_history,  \* PriceMonitor.price_history: coin -> deque(maxlen) of prices
    latest_stats,   \* PriceMonitor.latest_stats: coin -> statistics or NoStats
    observers,      \* Observable._observers
    table,          \* the hash table of _observers: slot -> observer, Unused or Dummy
    tk,             \* the asyncio tasks running _monitoring_loop
    nTasks,         \* number of tasks created so far
    calls,          \* the coroutines calling stop()
    quiet,          \* history: a stop() has returned and no start() was called since
    started,        \* history: start() was called and stop() was not called since
    recent,         \* history: coin -> the last Capacity + 1 prices accepted for it
    ev              \* history: the step just taken

vars == <<is_running, task, latest_ticks, price_history, latest_stats, observers,
          table, tk, nTasks, calls, quiet, started, recent, ev>>

registry == <<observers, table>>

engine == <<latest_ticks, price_history, latest_stats>>

\* ------------------------------------------------------------- helpers
Abs(x) == IF x < 0 THEN -x ELSE x

Min(S) == CHOOSE x \in S : \A y \in S : x <= y

Max(S) == CHOOSE x \in S : \A y \in S : x >= y

\* The responses get_price can return: each coin absent or with a price.
Responses == [Coins -> Prices \cup {Absent}]

NoData == [c \in Coins |-> Absent]

\* The alerts of a cycle: for each coin the alert_type of its PriceAlert, if any.
NoAlerts == [c \in Coins |-> "none"]

\* A broadcast (one call of notify_observers) that has ended.
NoBc == [kind |-> "none", coin |-> 0, snap |-> {}, got |-> {}, dup |-> FALSE,
         mut |-> FALSE, reg |-> FALSE, raised |-> FALSE, res |-> "none"]

\* A cycle (one pass of the while body) that has reached the sleep; sf: the
\* coins whose statistics computation raised in it.
NoCyc == [cause |-> "none", present |-> {}, upd |-> {}, stats |-> FALSE,
          data |-> NoData, olds |-> NoData, alerts |-> NoAlerts, sf |-> {}]

NoEv == [op |-> "init", who |-> 0, noop |-> FALSE, bc |-> NoBc, cyc |-> NoCyc]

Ev(op, who) == [NoEv EXCEPT !.op = op, !.who = who]

\* A task that does not exist yet.
NoTask == [pc |-> "none", cancel |-> FALSE, data |-> NoData, coin |-> 0,
           kind |-> "none", si_used |-> 0, cur |-> 0, snap |-> {}, got |-> {},
           dup |-> FALSE, mut |-> FALSE, reg |-> FALSE, upd |-> {}, failed |-> FALSE,
           olds |-> NoData, alerts |-> NoAlerts, stay |-> {}, agot |-> {}]

IdleCall == [pc |-> "idle", awaiting |-> None, onStopped |-> FALSE]

Alive(t) == tk[t].pc \notin {"none", "done"}

\* A task that still executes cycles: alive and not cancelled.
Active(t) == Alive(t) /\ ~tk[t].cancel

\* ------------------------------------------------------------ Init
Init ==
    /\ is_running = FALSE
    /\ task = None
    /\ latest_ticks = [c \in Coins |-> NoTick]
    /\ price_history = [c \in Coins |-> <<>>]
    /\ latest_stats = [c \in Coins |-> NoStats]
    /\ observers = {}
    /\ table = [s \in Slots |-> Unused]
    /\ tk = [t \in TaskIds |-> NoTask]
    /\ nTasks = 0
    /\ calls = [c \in Callers |-> IdleCall]
    /\ quiet = FALSE
    /\ started = FALSE
    /\ recent = [c \in Coins |-> <<>>]
    /\ ev = NoEv

\* -------------------------------------------------- the monitoring cycle
\* What one run of the task works on: the engine's maps, the task's own frame,
\* the coins whose statistics computation raises in this run (sf), and what the
\* run reports: the broadcast it ended (bc) and the cycle it ended (cyc).
Machine(t, sf) == [lt |-> latest_ticks, ph |-> price_history, ls |-> latest_stats,
                   tk |-> tk[t], sf |-> sf, bc |-> NoBc, cyc |-> NoCyc,
                   rc |-> recent]

\* Push on a deque without maxlen.
PushUnbounded(h, x) == Append(h, x)

\* Push on a full buffer that drops the newest tick it holds, not the oldest.
PushDropNewest(h, x) ==
    IF Len(h) < Capacity THEN Append(h, x) ELSE Append(SubSeq(h, 1, Len(h) - 1), x)

\* collections.deque(maxlen=buffer_size).append
Push(h, x) == IF Len(h) < Capacity THEN Append(h, x) ELSE Append(Tail(h), x)

\* The history of the accepted prices, one longer than the buffer.
Remember(h, x) == IF Len(h) < Capacity + 1 THEN Append(h, x) ELSE Append(Tail(h), x)

\* AlertDue with a threshold that a change must exceed.
AlertDueStrict(old, new) == Abs((new - old) * 100) > Threshold * old

\* abs(((new - old) / old) * 100) >= self.threshold, for old > 0
AlertDue(old, new) == Abs((new - old) * 100) >= Threshold * old

\* PRICE_INCREASE if percent_change > 0 else PRICE_DECREASE, for old > 0
AlertType(old, new) == IF (new - old) * 100 > 0 THEN "price_increase" ELSE "price_decrease"

\* StatsOf with windows that need more than 20 rows.
StatsOfStrict(h) == [set |-> TRUE, current_price |-> h[Len(h)],
                     sma_20 |-> Len(h) > SmaWindow, ema_20 |-> Len(h) > SmaWindow,
                     volatility_24h |-> Len(h) >= VolMinLen]

\* StatsOf with the volatility computed under the test of the moving averages.
StatsOfVolLate(h) == [set |-> TRUE, current_price |-> h[Len(h)],
                      sma_20 |-> Len(h) >= SmaWindow, ema_20 |-> Len(h) >= SmaWindow,
                      volatility_24h |-> Len(h) >= SmaWindow]

\* The StatisticsModel built from the last row of a buffer: the columns sma_20
\* and ema_20 exist when len(df) >= 20, and the last row of a rolling or
\* exponential mean over at least 20 rows holds a number. The column
\* volatility_24h exists when len(df) >= 5; its last row is the deviation of at
\* least 5 rows over the mean price.
StatsOf(h) == [set |-> TRUE, current_price |-> h[Len(h)],
               sma_20 |-> Len(h) >= SmaWindow, ema_20 |-> Len(h) >= SmaWindow,
               volatility_24h |-> Len(h) >= VolMinLen]

\* CalcStats with statistics for every coin that has a tick.
CalcStatsFromOne(ls, ph, sf) ==
    [c \in Coins |->
        IF Len(ph[c]) < 1 THEN ls[c]
        ELSE IF c \in sf THEN ls[c]
        ELSE StatsOf(ph[c])]

\* CalcStats without the try of lines 230-267: a computation that raises ends
\* _calculate_statistics, the coins behind it get no new statistics.
CalcStatsNoCatch(ls, ph, sf) ==
    [c \in Coins |->
        IF Len(ph[c]) < StatsMinLen THEN ls[c]
        ELSE IF \E d \in sf : d <= c /\ Len(ph[d]) >= StatsMinLen THEN ls[c]
        ELSE StatsOf(ph[c])]

\* _calculate_statistics: every coin with at least two ticks gets new statistics,
\* unless its computation raises (caught per coin).
CalcStats(ls, ph, sf) ==
    [c \in Coins |->
        IF Len(ph[c]) < StatsMinLen THEN ls[c]
        ELSE IF c \in sf THEN ls[c]
        ELSE StatsOf(ph[c])]

\* The while body has ended, by the statistics or by an except clause of
\* _monitoring_loop: the task is in asyncio.sleep.
EndCycle(m, cause, stats) ==
    [m EXCEPT !.cyc = [cause |-> cause,
                       present |-> {c \in Coins : m.tk.data[c] # Absent},
                       upd |-> m.tk.upd, stats |-> stats,
                       data |-> m.tk.data, olds |-> m.tk.olds,
                       alerts |-> m.tk.alerts,
                       sf |-> IF stats
                              THEN {c \in m.sf : Len(m.ph[c]) >= StatsMinLen}
                              ELSE {}],
              !.tk = [NoTask EXCEPT !.pc = "sleep", !.cancel = m.tk.cancel,
                                    !.failed = (cause # "ok")]]

\* An exception leaves _fetch_and_process_prices: the except clauses of the loop
\* log it, _calculate_statistics is skipped.
CycleError(m, cause) == EndCycle(m, cause, FALSE)

\* _fetch_and_process_prices returned: await self._calculate_statistics()
Statistics(m) == EndCycle([m EXCEPT !.ls = CalcStats(m.ls, m.ph, m.sf)], "ok", TRUE)

\* The record of a broadcast that ended.
BcDone(r, res, raised) ==
    [kind |-> r.kind, coin |-> r.coin, snap |-> r.snap, got |-> r.got,
     dup |-> r.dup, mut |-> r.mut, reg |-> r.reg, raised |-> raised, res |-> res]

\* The observer in slot s, and the occupied slots behind slot s.
At(s) == table[s]

SlotsAfter(s) == {x \in DOMAIN table : x > s /\ table[x] \notin {Unused, Dummy}}

RECURSIVE ProcessFrom(_, _), AfterBroadcast(_, _, _)

\* notify_observers: "for observer in self._observers" creates the set iterator
\* and awaits the first observer's update. The iterator walks the slots of the
\* set's table in order. With no observer the call returns without suspending.
\* For the tick that follows an alert of the same coin, stay and agot go on
\* from the alert's broadcast: the observers registered ever since it began,
\* and the observers that were handed the alert.
StartBroadcast(m, i, kind) ==
    LET after == kind = "tick" /\ m.tk.alerts[i] # "none"
        n == [m EXCEPT !.tk.stay = IF after THEN @ ELSE observers,
                       !.tk.agot = IF after THEN @ ELSE {},
                       !.tk.got = {}]
    IN
    IF observers = {} THEN AfterBroadcast(n, i, kind)
    ELSE [n EXCEPT !.tk = [@ EXCEPT !.pc = "notify", !.coin = i, !.kind = kind,
                                    !.si_used = Cardinality(observers),
                                    !.cur = Min(SlotsAfter(-1)),
                                    !.snap = observers,
                                    !.got = {At(Min(SlotsAfter(-1)))},
                                    !.dup = FALSE,
                                    !.mut = FALSE,
                                    !.reg = FALSE]]

\* AcceptTick without the append to the buffer.
AcceptTickNoAppend(m, i) ==
    StartBroadcast([m EXCEPT !.lt[i] = m.tk.data[i],
                             !.rc[i] = Remember(@, m.tk.data[i]),
                             !.tk.upd = @ \cup {i}], i, "tick")

\* latest_ticks[coin_id] = new_tick; price_history[coin_id].append(new_tick);
\* await self.notify_observers(tick=new_tick)
AcceptTick(m, i) ==
    StartBroadcast([m EXCEPT !.lt[i] = m.tk.data[i],
                             !.ph[i] = Push(@, m.tk.data[i]),
                             !.rc[i] = Remember(@, m.tk.data[i]),
                             !.tk.upd = @ \cup {i}], i, "tick")

\* notify_observers returned: after the alert comes the tick of the same coin,
\* after the tick the next coin.
AfterBroadcast(m, i, kind) ==
    IF kind = "alert" THEN AcceptTick([m EXCEPT !.tk.agot = m.tk.got], i)
    ELSE ProcessFrom(m, i + 1)

\* ProcessFrom with "break" for "continue": a coin that is absent from the
\* response ends the for-loop.
ProcessFromBreak(m, i) ==
    IF i > NumCoins THEN Statistics(m)
    ELSE IF m.tk.data[i] = Absent THEN Statistics(m)
    ELSE LET n == [m EXCEPT !.tk.olds[i] = m.lt[i]]
         IN  IF m.lt[i] = NoTick THEN AcceptTick(n, i)
             ELSE IF m.lt[i] = 0 THEN CycleError(n, "zero_division")
             ELSE IF AlertDue(m.lt[i], m.tk.data[i])
             THEN StartBroadcast([n EXCEPT !.tk.alerts[i] =
                                     AlertType(m.lt[i], m.tk.data[i])], i, "alert")
             ELSE AcceptTick(n, i)

\* ProcessFrom without the test "coin_id in self.latest_ticks": a first tick
\* makes an alert.
ProcessFromNoFirstTest(m, i) ==
    IF i > NumCoins THEN Statistics(m)
    ELSE IF m.tk.data[i] = Absent THEN ProcessFrom(m, i + 1)
    ELSE LET n == [m EXCEPT !.tk.olds[i] = m.lt[i]]
         IN  IF m.lt[i] = 0 THEN CycleError(n, "zero_division")
             ELSE IF m.lt[i] = NoTick \/ AlertDue(m.lt[i], m.tk.data[i])
             THEN StartBroadcast([n EXCEPT !.tk.alerts[i] =
                                     AlertType(m.lt[i], m.tk.data[i])], i, "alert")
             ELSE AcceptTick(n, i)

\* The for-loop of _fetch_and_process_prices from coin i on, up to the next
\* suspension. The division by old_tick.price_usd raises ZeroDivisionError
\* when the stored price is 0. olds keeps the price of old_tick for each coin
\* the loop has come to.
ProcessFrom(m, i) ==
    IF i > NumCoins THEN Statistics(m)
    ELSE IF m.tk.data[i] = Absent THEN ProcessFrom(m, i + 1)
    ELSE LET n == [m EXCEPT !.tk.olds[i] = m.lt[i]]
         IN  IF m.lt[i] = NoTick THEN AcceptTick(n, i)
             ELSE IF m.lt[i] = 0 THEN CycleError(n, "zero_division")
             ELSE IF AlertDue(m.lt[i], m.tk.data[i])
             THEN StartBroadcast([n EXCEPT !.tk.alerts[i] =
                                     AlertType(m.lt[i], m.tk.data[i])], i, "alert")
             ELSE AcceptTick(n, i)

\* The run of task t is over: its effects on the engine and on its own frame.
Commit(t, m, op) ==
    /\ latest_ticks' = m.lt
    /\ price_history' = m.ph
    /\ latest_stats' = m.ls
    /\ recent' = m.rc
    /\ tk' = [tk EXCEPT ![t] = m.tk]
    /\ ev' = [op |-> op, who |-> t, noop |-> FALSE, bc |-> m.bc, cyc |-> m.cyc]
    /\ UNCHANGED <<is_running, task, registry, nTasks, calls, quiet, started>>

\* The task starts to run: "async with CoinGeckoClient()", then the first test
\* of "while self.is_running", then the fetch.
TaskBegin(t) ==
    /\ tk[t].pc = "created"
    /\ ~tk[t].cancel
    /\ Commit(t, [Machine(t, {}) EXCEPT
                    !.tk.pc = IF is_running THEN "fetch" ELSE "done"], "begin")

\* client.get_price returns price_data.
FetchOk(t, data, sf) ==
    /\ tk[t].pc = "fetch"
    /\ ~tk[t].cancel
    /\ Commit(t, ProcessFrom([Machine(t, sf) EXCEPT !.tk.data = data,
                                                     !.tk.failed = FALSE], 1), "fetch_ok")

\* FetchFail with the exception leaving _monitoring_loop: the task ends.
FetchFailEscapes(t) ==
    /\ tk[t].pc = "fetch"
    /\ ~tk[t].cancel
    /\ Commit(t, [Machine(t, {}) EXCEPT !.tk = [NoTask EXCEPT !.pc = "done"]],
              "fetch_fail")

\* FetchFail with an except clause that gives up: self.is_running = False.
FetchFailStops(t) ==
    /\ tk[t].pc = "fetch"
    /\ ~tk[t].cancel
    /\ LET m == CycleError(Machine(t, {}), "fetch_error")
       IN  /\ is_running' = FALSE
           /\ tk' = [tk EXCEPT ![t] = m.tk]
           /\ ev' = [op |-> "fetch_fail", who |-> t, noop |-> FALSE,
                     bc |-> m.bc, cyc |-> m.cyc]
           /\ UNCHANGED <<task, engine, recent, registry, nTasks, calls, quiet, started>>

\* FetchFail with an except clause that forgets the latest ticks.
FetchFailResets(t) ==
    /\ tk[t].pc = "fetch"
    /\ ~tk[t].cancel
    /\ Commit(t, CycleError([Machine(t, {}) EXCEPT !.lt = [c \in Coins |-> NoTick]],
                             "fetch_error"), "fetch_fail")

\* client.get_price raises CoinGeckoAPIError (or anything else).
FetchFail(t) ==
    /\ tk[t].pc = "fetch"
    /\ ~tk[t].cancel
    /\ Commit(t, CycleError(Machine(t, {}), "fetch_error"), "fetch_fail")

\* observer.update returns: the for statement asks the set iterator for the next
\* observer. The iterator raises RuntimeError when the set's size differs from
\* the size at its creation; otherwise it goes on from its slot in the live
\* table, where it may find an observer it has called already.
HandlerReturn(t, sf) ==
    /\ tk[t].pc = "notify"
    /\ ~tk[t].cancel
    /\ LET r == tk[t]
           m == Machine(t, sf)
           rest == SlotsAfter(r.cur)
       IN  IF Cardinality(observers) # r.si_used
           THEN Commit(t, CycleError([m EXCEPT !.bc = BcDone(r, "runtime_error", FALSE)],
                                     "runtime_error"), "handler_return")
           ELSE IF rest = {}
           THEN Commit(t, AfterBroadcast([m EXCEPT !.bc = BcDone(r, "ok", FALSE)],
                                         r.coin, r.kind), "handler_return")
           ELSE Commit(t, [m EXCEPT !.tk.cur = Min(rest),
                                    !.tk.got = @ \cup {At(Min(rest))},
                                    !.tk.dup = @ \/ At(Min(rest)) \in r.got],
                       "handler_return")

\* observer.update raises: notify_observers has no try, the exception leaves it
\* and _fetch_and_process_prices, and "except Exception" of the loop logs it.
HandlerRaise(t) ==
    /\ tk[t].pc = "notify"
    /\ ~tk[t].cancel
    /\ LET m == Machine(t, {})
       IN  Commit(t, CycleError([m EXCEPT !.bc = BcDone(tk[t], "handler_error", TRUE)],
                                "handler_error"), "handler_raise")

\* asyncio.sleep(self.interval) is over: "while self.is_running" is tested
\* again; when it is false the loop and the task end.
Wake(t) ==
    /\ tk[t].pc = "sleep"
    /\ ~tk[t].cancel
    /\ Commit(t, [Machine(t, {}) EXCEPT
                    !.tk.pc = IF is_running THEN "fetch" ELSE "done",
                    !.tk.failed = is_running /\ @], "wake")

\* Task.cancel() was called: CancelledError is raised at the await the task is
\* suspended in; it is no Exception, nothing in the task catches it, the task ends.
Cancelled(t) ==
    /\ tk[t].pc \in {"created", "fetch", "notify", "sleep"}
    /\ tk[t].cancel
    /\ LET m == Machine(t, {})
       IN  Commit(t, [m EXCEPT !.tk = [NoTask EXCEPT !.pc = "done"],
                               !.bc = IF tk[t].pc = "notify"
                                      THEN BcDone(tk[t], "cancelled", FALSE) ELSE NoBc],
                  "cancelled")

\* ------------------------------------------------------- the registry
\* A change of the set (by a registration: isReg) is seen by every broadcast
\* that is suspended in a handler.
Touch(newObs, isReg) ==
    tk' = [t \in TaskIds |->
             IF tk[t].pc = "notify" /\ newObs # observers
             THEN [tk[t] EXCEPT !.mut = TRUE, !.reg = @ \/ isReg,
                                !.stay = @ \cap newObs]
             ELSE tk[t]]

\* The set's hash table (CPython's setobject.c). A handler object hashes to its
\* address, so its hash is what the allocator made it; the model takes the
\* hashes 0, 1, 3, 6, ... for the observers 1, 2, 3, 4, ...
Hash(o) == (o * (o - 1)) \div 2

Size(tb) == Cardinality(DOMAIN tb)

\* The slots probed at slot i of a table with mask "mask": slot i and, when
\* they lie in the table, the LinearProbes slots behind it.
Round(i, mask) ==
    IF i + LinearProbes <= mask THEN [k \in 1..(LinearProbes + 1) |-> i + k - 1]
    ELSE <<i>>

RECURSIVE Chain(_, _, _)

\* n rounds of the probe from slot i: the probe goes on from slot i to slot
\* (i * 5 + 1 + perturb) & mask, perturb being 0 for a hash below 32.
Chain(i, mask, n) ==
    IF n = 0 THEN <<>>
    ELSE Round(i, mask) \o Chain((i * 5 + 1) % (mask + 1), mask, n - 1)

\* The slots the probe of key o visits, from slot hash & mask on.
ProbeSeq(tb, o) == Chain(Hash(o) % Size(tb), Size(tb) - 1, Size(tb))

\* set.add of a new key: the probe runs to the first unused slot; the key goes
\* to the last discarded entry passed on the way, else to the unused slot.
InsertSlot(tb, o) ==
    LET seq  == ProbeSeq(tb, o)
        stop == Min({k \in 1..Len(seq) : tb[seq[k]] = Unused})
        dums == {k \in 1..(stop - 1) : tb[seq[k]] = Dummy}
    IN  IF dums # {} THEN seq[Max(dums)] ELSE seq[stop]

RECURSIVE Reinsert(_, _, _)

\* set_table_resize: the keys of the old table go, in slot order, into the new
\* table, which has no discarded entries.
Reinsert(tb, old, ss) ==
    IF ss = {} THEN tb
    ELSE Reinsert([tb EXCEPT ![InsertSlot(tb, old[Min(ss)])] = old[Min(ss)]],
                  old, ss \ {Min(ss)})

\* The occupied slots of a table, and the slots that were ever used (fill).
Used(tb) == {s \in DOMAIN tb : tb[s] \notin {Unused, Dummy}}

Fill(tb) == Cardinality({s \in DOMAIN tb : tb[s] # Unused})

RECURSIVE Grow(_, _)

\* The size of the resized table: the least power of two from PySet_MINSIZE on
\* that is greater than minused.
Grow(n, minused) == IF n <= minused THEN Grow(2 * n, minused) ELSE n

\* set.add: a key that is in the set stays where it is. A key put into an
\* unused slot makes the table be resized to hold used * 4 keys when
\* fill * 5 >= mask * 3.
Add(tb, o) ==
    IF \E s \in DOMAIN tb : tb[s] = o THEN tb
    ELSE LET s  == InsertSlot(tb, o)
             nt == [tb EXCEPT ![s] = o]
             n  == Grow(NumSlots, Cardinality(Used(nt)) * 4)
         IN  IF tb[s] = Unused /\ Fill(nt) * 5 >= (Size(tb) - 1) * 3
             THEN Reinsert([x \in 0..(n - 1) |-> Unused], nt, Used(nt))
             ELSE nt

\* set.discard: the key's entry becomes a discarded entry.
Discard(tb, o) == [s \in DOMAIN tb |-> IF tb[s] = o THEN Dummy ELSE tb[s]]

\* register_observer: self._observers.add(observer)
Register(o) ==
    /\ observers' = observers \cup {o}
    /\ table' = Add(table, o)
    /\ Touch(observers \cup {o}, TRUE)
    /\ ev' = Ev("register", o)
    /\ UNCHANGED <<is_running, task, engine, recent, nTasks, calls, quiet, started>>

\* unregister_observer: self._observers.discard(observer)
Unregister(o) ==
    /\ observers' = observers \ {o}
    /\ table' = Discard(table, o)
    /\ Touch(observers \ {o}, FALSE)
    /\ ev' = Ev("unregister", o)
    /\ UNCHANGED <<is_running, task, engine, recent, nTasks, calls, quiet, started>>

\* ------------------------------------------------------- the lifecycle
\* start(): returns when already running, else sets the flag and creates the task.
Start ==
    /\ is_running \/ nTasks < MaxTasks
    /\ IF is_running
       THEN /\ UNCHANGED <<is_running, task, tk, nTasks>>
            /\ ev' = [Ev("start", 0) EXCEPT !.noop = TRUE]
       ELSE /\ is_running' = TRUE
            /\ nTasks' = nTasks + 1
            /\ task' = nTasks + 1
            /\ tk' = [tk EXCEPT ![nTasks + 1] = [NoTask EXCEPT !.pc = "created"]]
            /\ ev' = Ev("start", nTasks + 1)
    /\ quiet' = FALSE
    /\ started' = TRUE
    /\ UNCHANGED <<engine, recent, registry, calls>>

\* StopCall without "if not self.is_running: return".
StopCallNoGuard(c) ==
    /\ calls[c].pc = "idle"
    /\ started' = FALSE
    /\ is_running' = FALSE
    /\ IF task # None
       THEN /\ tk' = [tk EXCEPT ![task].cancel = @ \/ tk[task].pc # "done"]
            /\ calls' = [calls EXCEPT ![c] = [pc |-> "stop_wait",
                                             awaiting |-> task,
                                             onStopped |-> ~is_running]]
            /\ UNCHANGED <<task, quiet>>
            /\ ev' = Ev("stop_call", c)
       ELSE /\ UNCHANGED <<task, tk, calls>>
            /\ quiet' = TRUE
            /\ ev' = Ev("stop_return", c)
    /\ UNCHANGED <<engine, recent, registry, nTasks>>

\* stop() up to its await: returns when not running; else clears the flag,
\* cancels the task self._task names and waits for it. Without a task it
\* returns at once.
StopCall(c) ==
    /\ calls[c].pc = "idle"
    /\ started' = FALSE
    /\ IF ~is_running
       THEN /\ UNCHANGED <<is_running, task, tk, calls>>
            /\ quiet' = TRUE
            /\ ev' = [Ev("stop_return", c) EXCEPT !.noop = TRUE]
       ELSE /\ is_running' = FALSE
            /\ IF task # None
               THEN /\ tk' = [tk EXCEPT ![task].cancel = @ \/ tk[task].pc # "done"]
                    /\ calls' = [calls EXCEPT ![c] = [pc |-> "stop_wait",
                                                     awaiting |-> task,
                                                     onStopped |-> FALSE]]
                    /\ UNCHANGED <<task, quiet>>
                    /\ ev' = Ev("stop_call", c)
               ELSE /\ UNCHANGED <<task, tk, calls>>
                    /\ quiet' = TRUE
                    /\ ev' = Ev("stop_return", c)
    /\ UNCHANGED <<engine, recent, registry, nTasks>>

\* stop() after its await: the awaited task has ended, its CancelledError is
\* swallowed, self._task = None, return.
StopResume(c) ==
    /\ calls[c].pc = "stop_wait"
    /\ tk[calls[c].awaiting].pc = "done"
    /\ task' = None
    /\ calls' = [calls EXCEPT ![c] = IdleCall]
    /\ quiet' = TRUE
    /\ ev' = Ev("stop_return", c)
    /\ UNCHANGED <<is_running, engine, recent, registry, tk, nTasks, started>>

\* ------------------------------------------------------- specifications
\* What the environment may do in a statistics computation: fail for no coin
\* or for one.
StatFails == {{}} \cup {{c} : c \in Coins}

TaskStep(t) ==
    \/ TaskBegin(t)
    \/ \E d \in Responses, sf \in StatFails : FetchOk(t, d, sf)
    \/ FetchFail(t)
    \/ \E sf \in StatFails : HandlerReturn(t, sf)
    \/ HandlerRaise(t)
    \/ Wake(t)
    \/ Cancelled(t)

Next ==
    \/ Start
    \/ \E c \in Callers : StopCall(c)
    \/ \E c \in Callers : StopResume(c)
    \/ \E o \in Observers : Register(o)
    \/ \E o \in Observers : Unregister(o)
    \/ \E t \in TaskIds : TaskStep(t)

Spec == Init /\ [][Next]_vars

\* The lifecycle under every interleaving of start(), stop() and the tasks'
\* steps, with one observer and one response (the first coin at price 1).
LifeResponses == {[c \in Coins |-> IF c = 1 THEN 1 ELSE Absent]}

LifeObservers == {1}

LifeTaskStep(t) ==
    \/ TaskBegin(t)
    \/ \E d \in LifeResponses, sf \in StatFails : FetchOk(t, d, sf)
    \/ FetchFail(t)
    \/ \E sf \in StatFails : HandlerReturn(t, sf)
    \/ HandlerRaise(t)
    \/ Wake(t)
    \/ Cancelled(t)

\* The callers of stop() are interchangeable: the next call is made by the idle
\* one with the least number.
FirstIdle(c) == calls[c].pc = "idle" /\ \A d \in Callers : d < c => calls[d].pc # "idle"

NextLife ==
    \/ Start
    \/ \E c \in Callers : FirstIdle(c) /\ StopCall(c)
    \/ \E c \in Callers : StopResume(c)
    \/ \E o \in LifeObservers : Register(o)
    \/ \E t \in TaskIds : LifeTaskStep(t)

LifeSpec == Init /\ [][NextLife]_vars

\* The notification hub under one engine that is started and never stopped:
\* every observer may register and unregister at any suspension, every handler
\* may return or raise; the first coin moves between the prices 1 and 2, the
\* other coins stay at 1.
HubResponses == {d \in Responses : d[1] \in {1, 2} /\ \A c \in Coins \ {1} : d[c] = 1}

HubTaskStep(t) ==
    \/ TaskBegin(t)
    \/ \E d \in HubResponses : FetchOk(t, d, {})
    \/ FetchFail(t)
    \/ HandlerReturn(t, {})
    \/ HandlerRaise(t)
    \/ Wake(t)

NextHub ==
    \/ Start
    \/ \E o \in Observers : Register(o)
    \/ \E o \in Observers : Unregister(o)
    \/ \E t \in TaskIds : HubTaskStep(t)

HubSpec == Init /\ [][NextHub]_vars

\* The price feed under one engine that is started and never stopped, with at
\* most one observer: the first coin is absent from a response or comes at a
\* positive price, the last coin is absent or comes at the price 2, any other
\* coin is absent; a fetch may fail, a handler may return or raise, the
\* statistics computation of a coin may raise.
FeedResponses ==
    {d \in Responses : /\ d[1] \in {Absent} \cup (Prices \ {0})
                        /\ d[NumCoins] \in {Absent, 2}
                        /\ \A c \in Coins \ {1, NumCoins} : d[c] = Absent}

FeedTaskStep(t) ==
    \/ TaskBegin(t)
    \/ \E d \in FeedResponses, sf \in StatFails : FetchOk(t, d, sf)
    \/ FetchFail(t)
    \/ \E sf \in StatFails : HandlerReturn(t, sf)
    \/ HandlerRaise(t)
    \/ Wake(t)

NextFeed ==
    \/ Start
    \/ \E o \in LifeObservers : Register(o)
    \/ \E t \in TaskIds : FeedTaskStep(t)

FeedSpec == Init /\ [][NextFeed]_vars

\* The registry under churn: NumHandlers observers register and unregister
\* before the engine is started and while it broadcasts an alert; the engine is
\* started and never stopped and runs ChurnCycles cycles, in which every fetch
\* succeeds and every handler returns; the price of the first coin goes from 1
\* to 2 and back, the other coins are absent.
ChurnObservers == 1..NumHandlers

ChurnResponses ==
    {d \in Responses : /\ d[1] = (IF latest_ticks[1] = 1 THEN 2 ELSE 1)
                        /\ \A c \in Coins \ {1} : d[c] = Absent}

ChurnTime == nTasks = 0 \/ \E t \in TaskIds : tk[t].pc = "notify" /\ tk[t].kind = "alert"

ChurnTaskStep(t) ==
    \/ TaskBegin(t)
    \/ \E d \in ChurnResponses : Len(recent[1]) < ChurnCycles /\ FetchOk(t, d, {})
    \/ HandlerReturn(t, {})
    \/ Wake(t)

NextChurn ==
    \/ Start
    \/ \E o \in ChurnObservers : ChurnTime /\ Register(o)
    \/ \E o \in ChurnObservers : ChurnTime /\ Unregister(o)
    \/ \E t \in TaskIds : ChurnTaskStep(t)

ChurnSpec == Init /\ [][NextChurn]_vars

\* The keyword arguments notify_observers hands to update: it always passes
\* tick=tick and alert=alert, the one the broadcast is not about being None.
NotifyKwargs(kind) ==
    [tick  |-> IF kind = "tick" THEN "CryptoTick" ELSE "None",
     alert |-> IF kind = "alert" THEN "PriceAlert" ELSE "None"]

\* WebSocketObserver.update: the test is on the presence of the key, and
\* None has no __dict__.
WebSocketObserverUpdate(kwargs) ==
    IF "tick" \in DOMAIN kwargs
    THEN IF kwargs.tick = "None" THEN "AttributeError" ELSE "sent_tick"
    ELSE IF "alert" \in DOMAIN kwargs
    THEN IF kwargs.alert = "None" THEN "AttributeError" ELSE "sent_alert"
    ELSE "sent_nothing"

\* The engine with the WebSocket adapter as its only kind of observer: a
\* connection registers its adapter, the adapter's update returns or raises as
\* its code says; one engine, started and never stopped; the first coin comes
\* at the price 1 or 2, the other coins are absent.
WsResponses == {d \in Responses : d[1] \in {1, 2} /\ \A c \in Coins \ {1} : d[c] = Absent}

WsUpdateReturns(t) ==
    /\ tk[t].pc = "notify"
    /\ WebSocketObserverUpdate(NotifyKwargs(tk[t].kind)) # "AttributeError"
    /\ HandlerReturn(t, {})

WsUpdateRaises(t) ==
    /\ tk[t].pc = "notify"
    /\ WebSocketObserverUpdate(NotifyKwargs(tk[t].kind)) = "AttributeError"
    /\ HandlerRaise(t)

WsTaskStep(t) ==
    \/ TaskBegin(t)
    \/ \E d \in WsResponses : FetchOk(t, d, {})
    \/ FetchFail(t)
    \/ WsUpdateReturns(t)
    \/ WsUpdateRaises(t)
    \/ Wake(t)

NextWs ==
    \/ Start
    \/ \E o \in LifeObservers : Register(o)
    \/ \E o \in LifeObservers : Unregister(o)
    \/ \E t \in TaskIds : WsTaskStep(t)

WsSpec == Init /\ [][NextWs]_vars

\* _calculate_statistics on its own: the statistics of an engine that is not
\* running, computed from the buffers it holds.
CalculateStatistics(sf) ==
    /\ latest_stats' = CalcStats(latest_stats, price_history, sf)
    /\ ev' = Ev("statistics", 0)
    /\ UNCHANGED <<is_running, task, latest_ticks, price_history, registry, tk,
                   nTasks, calls, quiet, started, recent>>

\* A buffer of n ticks at price 1.
Flat(n) == [k \in 1..n |-> 1]

\* The engine with buffers of every length up to HistLen (the configured
\* capacity is at least that), as the cycles before have left them.
InitStats ==
    /\ is_running = FALSE
    /\ task = None
    /\ price_history \in [Coins -> {Flat(n) : n \in 0..HistLen}]
    /\ latest_ticks = [c \in Coins |-> IF price_history[c] = <<>> THEN NoTick ELSE 1]
    /\ latest_stats = [c \in Coins |-> NoStats]
    /\ observers = {}
    /\ table = [s \in Slots |-> Unused]
    /\ tk = [t \in TaskIds |-> NoTask]
    /\ nTasks = 0
    /\ calls = [c \in Callers |-> IdleCall]
    /\ quiet = FALSE
    /\ started = FALSE
    /\ recent = [c \in Coins |-> Flat(Min({Len(price_history[c]), Capacity + 1}))]
    /\ ev = NoEv

NextStats == \E sf \in StatFails : CalculateStatistics(sf)

StatsSpec == InitStats /\ [][NextStats]_vars

\* The lifecycle with one caller of stop() and the scheduling the event loop
\* guarantees: a task that is ready runs, a sleep ends, a fetch ends (the HTTP
\* client has a timeout and a bounded number of retries), a cancellation is
\* delivered, and a stop() whose task has ended resumes. Nothing makes a
\* subscriber's handler return. The first coin comes at price 0 or 1.
LiveResponses == {d \in Responses : d[1] \in {0, 1} /\ \A c \in Coins \ {1} : d[c] = Absent}

LiveStart == nTasks < LiveTasks /\ Start

FetchDone(t) == FetchFail(t) \/ \E d \in LiveResponses, sf \in StatFails : FetchOk(t, d, sf)

LiveTaskStep(t) ==
    \/ TaskBegin(t)
    \/ FetchDone(t)
    \/ \E sf \in StatFails : HandlerReturn(t, sf)
    \/ HandlerRaise(t)
    \/ Wake(t)
    \/ Cancelled(t)

NextLive ==
    \/ LiveStart
    \/ StopCall(1)
    \/ StopResume(1)
    \/ \E o \in LifeObservers : Register(o)
    \/ \E o \in LifeObservers : Unregister(o)
    \/ \E t \in TaskIds : LiveTaskStep(t)

\* The steps of task t that the event loop and the HTTP client bring about. At
\* most one of them is enabled at a time.
Scheduled(t) == TaskBegin(t) \/ FetchDone(t) \/ Wake(t) \/ Cancelled(t)

Fairness ==
    /\ WF_vars(StopResume(1))
    /\ \A t \in 1..LiveTasks : WF_vars(Scheduled(t))

LiveSpec == Init /\ [][NextLive]_vars /\ Fairness

\* ------------------------------------------------------------ claims
\* The steps in which a task executes a part of a monitoring cycle.
CycleOps == {"begin", "fetch_ok", "fetch_fail", "handler_return", "handler_raise", "wake"}

ActiveTasks == {t \in TaskIds : Active(t)}

\* C1: once a stop() has returned, and until start() is called again, no task
\* executes a step of the monitoring cycle (so nothing is fetched, processed or
\* broadcast): the only step a task may still take is to end.
C1_StopQuiesces ==
    [][quiet => (ev'.op \in CycleOps => tk'[ev'.who].pc = "done")]_vars

\* C2: start() on a running engine changes nothing and creates no task, and
\* after start() calls with no stop() call since, exactly one task is executing
\* cycles.
C2_StartIdempotent ==
    /\ [][(ev'.op = "start" /\ is_running)
            => UNCHANGED <<is_running, task, tk, nTasks, engine, observers>>]_vars
    /\ [](started => Cardinality(ActiveTasks) = 1)

\* Whether the engine was Stopped when caller c's stop() was called.
StoppedAtCall(c) == IF calls[c].pc = "idle" THEN ~is_running ELSE calls[c].onStopped

\* C3: a stop() called on a Stopped engine returns at once, and no step of it
\* changes the running flag, the task handle, the latest ticks, the latest
\* statistics or the history buffers.
C3_StopIdempotent ==
    [][\A c \in Callers :
         (ev'.op \in {"stop_call", "stop_return"} /\ ev'.who = c /\ StoppedAtCall(c))
           => /\ ev'.op = "stop_return"
              /\ calls'[c].pc = "idle"
              /\ UNCHANGED <<is_running, task, latest_ticks, latest_stats,
                             price_history>>]_vars

\* C3 witness: a stop() on a Stopped engine has returned, while an earlier stop()
\* still holds the task handle and ticks and statistics are stored.
C3_Witness ==
    /\ ev.op = "stop_return" /\ ev.noop
    /\ task # None
    /\ latest_ticks[1] # NoTick
    /\ latest_stats[1].set

\* C4: a task ends only after stop() cleared the running flag or cancelled it;
\* every failed cycle leaves the task in its sleep; and from every sleep the
\* task goes on to the fetch of another cycle, unless stop() ended it.
C4_LoopNeverTerminates ==
    /\ [][\A t \in TaskIds :
            (tk[t].pc # "done" /\ tk'[t].pc = "done") => (tk[t].cancel \/ ~is_running)]_vars
    /\ [](ev.cyc.cause \notin {"none", "ok"} => tk[ev.who].pc = "sleep")
    /\ \A t \in 1..LiveTasks : (tk[t].pc = "sleep") ~> (tk[t].pc \in {"fetch", "done"})

\* C4 witness: after a failed cycle the task has slept and is in the fetch of
\* the next cycle, the engine still running.
C4_Witness ==
    \E t \in TaskIds : tk[t].pc = "fetch" /\ tk[t].failed /\ is_running /\ ev.op = "wake"

\* C5: the engine is Stopped at first, the flag is a boolean, and the only steps
\* that change it are start() (Stopped to Running) and stop() (Running to Stopped).
C5_RunningFlag ==
    /\ is_running = FALSE
    /\ [](is_running \in BOOLEAN)
    /\ [][is_running' # is_running =>
            \/ ev'.op = "start" /\ ~is_running /\ is_running'
            \/ ev'.op \in {"stop_call", "stop_return"} /\ is_running /\ ~is_running']_vars

\* C5 witness: a restarted engine is Running right after a cycle failed in a
\* subscriber's handler.
C5_Witness ==
    /\ is_running
    /\ ev.op = "handler_raise"
    /\ \E t \in TaskIds : tk[t].pc = "done"

\* A broadcast has just ended, by returning or by an exception.
BcEnded == ev.bc.res \in {"ok", "handler_error", "runtime_error"}

\* C6: a broadcast during which the set of subscribers changed (and no handler
\* raised) does not fail and has called exactly the subscribers registered at
\* its start.
C6_SnapshotDelivery ==
    (BcEnded /\ ev.bc.mut /\ ~ev.bc.raised)
        => (ev.bc.res = "ok" /\ ev.bc.got = ev.bc.snap)

\* C7: a broadcast (during which the set of subscribers did not change) has
\* called every subscriber registered at its start, also when a handler raised.
C7_DeliveryToAll ==
    (BcEnded /\ ~ev.bc.mut) => ev.bc.snap \subseteq ev.bc.got

\* C8: no broadcast ends by a handler's exception leaving notify_observers.
C8_HandlerErrorCaught ==
    BcEnded => ev.bc.res # "handler_error"

\* C9: a cycle whose fetch succeeded and in which a handler raised has updated
\* latest_ticks and the buffer of every coin of the response, and has recomputed
\* the statistics.
C9_EngineUnaffected ==
    ev.cyc.cause = "handler_error"
        => (ev.cyc.upd = ev.cyc.present /\ ev.cyc.stats)

\* C10: a task that waits for a subscriber's handler goes on to the end of its
\* cycle (its sleep), unless stop() ends it, whether or not the handler returns.
C10_SlowSubscriberNoStall ==
    \A t \in 1..LiveTasks : (tk[t].pc = "notify") ~> (tk[t].pc \in {"sleep", "done"})

\* C11: registering a handler that is registered changes nothing, one unregister
\* removes a handler however often it was registered, and no broadcast calls a
\* handler twice, whatever register and unregister calls were made.
C11_NoDuplicateDelivery ==
    /\ [][(ev'.op = "register" /\ ev'.who \in observers) => UNCHANGED registry]_vars
    /\ [][ev'.op = "unregister" => ev'.who \notin observers']_vars
    /\ [](\A t \in TaskIds : ~tk[t].dup)
    /\ [](~ev.bc.dup)

\* C12: a broadcast during which handlers were unregistered (and none was
\* registered, and no handler raised) does not fail, and it calls no handler
\* that was not registered when it started.
C12_UnsubscribeDuringBroadcast ==
    /\ (BcEnded /\ ev.bc.mut /\ ~ev.bc.reg /\ ~ev.bc.raised) => ev.bc.res = "ok"
    /\ \A t \in TaskIds : (tk[t].pc = "notify" /\ ~tk[t].reg) => tk[t].got \subseteq tk[t].snap

\* What a cycle has decided so far: the frames of the tasks that are inside a
\* cycle, and the record of the cycle that has just ended.
Decided == {[data |-> tk[t].data, olds |-> tk[t].olds, alerts |-> tk[t].alerts] :
              t \in {x \in TaskIds : tk[x].pc = "notify"}}
           \cup {[data |-> ev.cyc.data, olds |-> ev.cyc.olds, alerts |-> ev.cyc.alerts]}

\* C13: for a coin with a previous tick of price old > 0 and a new price new, the
\* cycle makes an alert if and only if abs((new - old) / old * 100) >= threshold
\* (a change of exactly the threshold makes one); the alert is a price_increase
\* for a positive change and a price_decrease for a negative one; and the alert
\* is broadcast at once.
C13_AlertThreshold ==
    /\ [](\A d \in Decided : \A i \in Coins :
            d.olds[i] > 0 =>
              /\ (d.alerts[i] # "none") <=>
                    (Abs(d.data[i] - d.olds[i]) * 100 >= Threshold * d.olds[i])
              /\ d.alerts[i] = "price_increase" => d.data[i] > d.olds[i]
              /\ d.alerts[i] = "price_decrease" => d.data[i] < d.olds[i])
    /\ [](\A t \in TaskIds : (tk[t].pc = "notify" /\ tk[t].kind = "alert")
            => (tk[t].olds[tk[t].coin] > 0 /\ tk[t].alerts[tk[t].coin] # "none"))
    /\ [][\A t \in TaskIds : \A i \in Coins :
            (/\ tk'[t].pc = "notify" /\ tk'[t].alerts[i] # "none"
             /\ ~(tk[t].pc = "notify" /\ tk[t].alerts[i] # "none"))
            => (tk'[t].kind = "alert" /\ tk'[t].coin = i)]_vars

\* C13 witness: the price fell from 2 to 1, a change of exactly the threshold,
\* and the price_decrease alert is being broadcast.
C13_Witness ==
    \E t \in TaskIds :
        /\ tk[t].pc = "notify" /\ tk[t].kind = "alert"
        /\ tk[t].olds[tk[t].coin] = 2 /\ tk[t].data[tk[t].coin] = 1
        /\ Abs(1 - 2) * 100 = Threshold * 2
        /\ tk[t].alerts[tk[t].coin] = "price_decrease"

\* Task t starts a broadcast of the given kind for coin i in this step.
Starts(t, i, kind) ==
    /\ tk'[t].pc = "notify" /\ tk'[t].kind = kind /\ tk'[t].coin = i
    /\ ~(tk[t].pc = "notify" /\ tk[t].kind = kind /\ tk[t].coin = i)

\* C14: a cycle makes no alert for a coin that had no latest tick when the cycle
\* came to it; an alert broadcast for a coin starts only when the coin has a
\* latest tick from an earlier step; and the step that stores a coin's first
\* tick starts the broadcast of that tick.
C14_NoAlertOnFirstTick ==
    /\ [](\A d \in Decided : \A i \in Coins : d.olds[i] = NoTick => d.alerts[i] = "none")
    /\ [][\A t \in TaskIds : \A i \in Coins :
            Starts(t, i, "alert") => latest_ticks[i] # NoTick]_vars
    /\ [][\A i \in Coins :
            (latest_ticks[i] = NoTick /\ latest_ticks'[i] # NoTick /\ observers # {})
            => Starts(ev'.who, i, "tick")]_vars

\* C14 witness: the first tick of a coin, at the highest price, is accepted and
\* being broadcast, and the cycle has made no alert for the coin.
C14_Witness ==
    \E t \in TaskIds :
        /\ tk[t].pc = "notify" /\ tk[t].kind = "tick" /\ tk[t].coin = 1
        /\ tk[t].olds[1] = NoTick /\ tk[t].data[1] = MaxPrice
        /\ latest_ticks[1] = MaxPrice
        /\ tk[t].alerts[1] = "none"

\* The steps in which a task runs the for-loop of _fetch_and_process_prices.
ProcessingOps == {"fetch_ok", "handler_return"}

\* C15: no buffer is ever longer than the capacity, and a buffer changes only in
\* a processing step of a cycle, by the append of one tick (at the end, the
\* oldest tick leaving a full buffer): start, stop, a failed fetch, a handler's
\* exception, a registration and a cancellation leave every buffer unchanged.
C15_BufferBounded ==
    /\ [](\A i \in Coins : Len(price_history[i]) <= Capacity)
    /\ [][ev'.op \notin ProcessingOps => UNCHANGED price_history]_vars
    /\ [][\A i \in Coins :
            price_history'[i] # price_history[i] =>
              \E x \in Prices : \/ price_history'[i] = Append(price_history[i], x)
                                \/ /\ Len(price_history[i]) = Capacity
                                   /\ price_history'[i] = Append(Tail(price_history[i]), x)]_vars

\* C15 witness: a stop() has returned on an engine whose buffer is full and has
\* evicted a tick.
C15_Witness ==
    /\ ev.op = "stop_return"
    /\ Len(price_history[1]) = Capacity
    /\ Len(recent[1]) = Capacity + 1

\* The last n elements of a sequence.
LastN(h, n) == SubSeq(h, Len(h) - n + 1, Len(h))

\* C16: after N ticks were accepted for a coin, its buffer holds the min(N, C)
\* most recently accepted ones, in the order of their acceptance.
C16_FifoEviction ==
    \A i \in Coins :
        price_history[i] = LastN(recent[i], Min({Len(recent[i]), Capacity}))

\* C16 witness: one tick more than the capacity was accepted, the oldest differs
\* from the next, and the buffer holds all but the oldest.
C16_Witness ==
    /\ Len(recent[1]) = Capacity + 1
    /\ recent[1][1] # recent[1][2]
    /\ price_history[1] = Tail(recent[1])

\* C17: a cycle whose fetch succeeded, in which no handler raised and which met
\* no price 0, ends normally with, for every coin of the response, the coin's
\* new price in latest_ticks and at the end of its buffer, whether or not the
\* cycle before it failed.
C17_CycleCompletes ==
    (/\ ev.cyc.cause \notin {"none", "fetch_error", "handler_error"}
     /\ \A i \in Coins : ev.cyc.data[i] # 0 /\ ev.cyc.olds[i] # 0)
    => /\ ev.cyc.cause = "ok"
       /\ ev.cyc.upd = ev.cyc.present
       /\ \A i \in ev.cyc.present :
             /\ latest_ticks[i] = ev.cyc.data[i]
             /\ price_history[i] # <<>>
             /\ price_history[i][Len(price_history[i])] = ev.cyc.data[i]

\* C18: a cycle whose fetch fails changes no latest tick and no buffer, starts no
\* broadcast and makes no alert, and leaves the task in its sleep, from which
\* it goes on to the fetch of the next cycle unless stop() ends it.
C18_FailedFetchSkips ==
    /\ [][ev'.op = "fetch_fail" =>
            /\ UNCHANGED <<latest_ticks, price_history>>
            /\ ev'.cyc.cause = "fetch_error"
            /\ ev'.cyc.upd = {} /\ ev'.cyc.alerts = NoAlerts
            /\ ev'.bc = NoBc
            /\ tk'[ev'.who].pc = "sleep" /\ tk'[ev'.who].failed]_vars
    /\ \A t \in 1..LiveTasks :
          (tk[t].pc = "sleep" /\ tk[t].failed) ~> (tk[t].pc \in {"fetch", "done"})

\* C18 witness: a fetch has just failed on an engine that holds a tick.
C18_Witness ==
    /\ ev.op = "fetch_fail"
    /\ latest_ticks[1] # NoTick
    /\ price_history[1] # <<>>
    /\ tk[ev.who].pc = "sleep"

\* The response the task that took the step is working on.
RunData == IF tk'[ev'.who].pc = "notify" THEN tk'[ev'.who].data ELSE ev'.cyc.data

\* C19: a processing step changes neither the latest tick nor the buffer of a
\* coin that is absent from the response, and starts no broadcast for it; the
\* cycle makes no tick and no alert for it; and a cycle that ends normally has
\* stored the new price of every coin that is in the response.
C19_AbsentSkipped ==
    /\ [][\A i \in Coins :
            (ev'.op \in ProcessingOps /\ RunData[i] = Absent) =>
              /\ latest_ticks'[i] = latest_ticks[i]
              /\ price_history'[i] = price_history[i]
              /\ ~(tk'[ev'.who].pc = "notify" /\ tk'[ev'.who].coin = i)]_vars
    /\ [](\A i \in Coins : ev.cyc.data[i] = Absent =>
            (i \notin ev.cyc.upd /\ ev.cyc.alerts[i] = "none"))
    /\ [](ev.cyc.cause = "ok" =>
            /\ ev.cyc.upd = {i \in Coins : ev.cyc.data[i] # Absent}
            /\ \A i \in ev.cyc.upd : latest_ticks[i] = ev.cyc.data[i])

\* C19 witness: a cycle has ended normally whose response lacked the first coin
\* and had the second: the first coin keeps its tick, the second has the new one.
C19_Witness ==
    /\ ev.cyc.cause = "ok"
    /\ ev.cyc.data[1] = Absent /\ ev.cyc.data[NumCoins] = 2
    /\ ev.cyc.upd = {i \in Coins : ev.cyc.data[i] # Absent}
    /\ latest_ticks[1] = 1 /\ latest_ticks[NumCoins] = 2
    /\ price_history[1] = <<1>>

\* C20: in every snapshot stored in latest_stats, sma_20 and ema_20 hold a
\* number if and only if the buffer the snapshot was computed from holds at
\* least 20 ticks.
C20_SmaEmaPresence ==
    \A c \in Coins :
        latest_stats[c].set =>
            /\ latest_stats[c].sma_20 <=> (Len(price_history[c]) >= 20)
            /\ latest_stats[c].ema_20 <=> (Len(price_history[c]) >= 20)

\* C20 witness: snapshots are stored for a buffer of exactly 20 ticks, with both
\* fields set, and for a buffer of 19 ticks, with both unset.
C20_Witness ==
    /\ Len(price_history[1]) = 20 /\ latest_stats[1].set
    /\ latest_stats[1].sma_20 /\ latest_stats[1].ema_20
    /\ Len(price_history[NumCoins]) = 19 /\ latest_stats[NumCoins].set
    /\ ~latest_stats[NumCoins].sma_20 /\ ~latest_stats[NumCoins].ema_20

\* C21: in every snapshot stored in latest_stats, volatility_24h holds a number
\* if and only if the buffer the snapshot was computed from holds at least 5
\* ticks.
C21_VolatilityPresence ==
    \A c \in Coins :
        latest_stats[c].set => (latest_stats[c].volatility_24h <=> (Len(price_history[c]) >= 5))

\* C21 witness: snapshots are stored for a buffer of exactly 5 ticks, with the
\* volatility set, and for a buffer of 4 ticks, with the volatility unset.
C21_Witness ==
    /\ Len(price_history[1]) = 5 /\ latest_stats[1].set
    /\ latest_stats[1].volatility_24h
    /\ Len(price_history[NumCoins]) = 4 /\ latest_stats[NumCoins].set
    /\ ~latest_stats[NumCoins].volatility_24h

\* C22: in the broadcast of the tick that follows an alert of the same coin
\* and cycle, every observer that has been handed the tick and has been
\* registered ever since the alert's broadcast began was handed the alert
\* before.
C22_AlertBeforeTick ==
    \A t \in TaskIds :
        (tk[t].pc = "notify" /\ tk[t].kind = "tick" /\ tk[t].alerts[tk[t].coin] # "none")
            => (tk[t].got \cap tk[t].stay) \subseteq tk[t].agot

\* C23: a cycle whose fetch failed has called _calculate_statistics before it
\* reached its sleep.
C23_FailedFetchStillStats ==
    ev.cyc.cause = "fetch_error" => ev.cyc.stats

\* C24: latest_stats changes only in the step that ends a cycle without error,
\* after every coin of the response has been processed and with no broadcast
\* of the task left; that step stores a snapshot, computed from the buffer, for
\* every coin whose buffer holds at least 2 ticks (and whose computation did
\* not raise) and for no other coin; and a coin that has had fewer than 2
\* ticks has no snapshot.
C24_StatsAfterProcessing ==
    /\ [][latest_stats' # latest_stats =>
            /\ ev'.cyc.cause = "ok"
            /\ ev'.cyc.upd = ev'.cyc.present
            /\ tk'[ev'.who].pc = "sleep"]_vars
    /\ [][ev'.cyc.cause = "ok" =>
            \A c \in Coins :
                /\ (Len(price_history'[c]) >= 2 /\ c \notin ev'.cyc.sf) =>
                      /\ latest_stats'[c].set
                      /\ latest_stats'[c].current_price = price_history'[c][Len(price_history'[c])]
                /\ Len(price_history'[c]) < 2 => latest_stats'[c] = latest_stats[c]]_vars
    /\ [](\A c \in Coins : Len(recent[c]) < 2 => ~latest_stats[c].set)

\* C24 witness: a cycle has ended without error that processed the first and
\* the last coin: the first coin, with 2 ticks or more, has a snapshot, the
\* last coin, with its first tick, has none.
C24_Witness ==
    /\ ev.cyc.cause = "ok"
    /\ ev.cyc.upd = {1, NumCoins}
    /\ Len(price_history[1]) >= 2 /\ latest_stats[1].set
    /\ Len(price_history[NumCoins]) = 1 /\ ~latest_stats[NumCoins].set

\* C25: when the statistics computation of a coin raises in a cycle, the
\* snapshot of that coin stays as it was, every other coin whose buffer holds
\* at least 2 ticks gets its new snapshot in the same step, and the cycle ends
\* as one without error, the task in its sleep.
C25_StatsFailureIsolated ==
    [][ev'.cyc.sf # {} =>
         /\ \A c \in ev'.cyc.sf : latest_stats'[c] = latest_stats[c]
         /\ \A c \in Coins \ ev'.cyc.sf :
               Len(price_history'[c]) >= 2 =>
                 /\ latest_stats'[c].set
                 /\ latest_stats'[c].current_price = price_history'[c][Len(price_history'[c])]
         /\ ev'.cyc.cause = "ok"
         /\ tk'[ev'.who].pc = "sleep"]_vars

\* C25 witness: the computation of the first coin has raised in a cycle that
\* brought it a new price: its snapshot still shows the price before, and the
\* last coin, with 2 ticks or more, has its snapshot.
C25_Witness ==
    /\ ev.cyc.sf = {1}
    /\ latest_stats[1].set
    /\ latest_stats[1].current_price # latest_ticks[1]
    /\ Len(price_history[NumCoins]) >= 2
    /\ latest_stats[NumCoins].set

\* C26: whenever no stop() call is in progress (start() has no suspension), the
\* engine is running if and only if exactly one task is alive and self._task
\* names it.
C26_RunningIffOneTask ==
    (\A c \in Callers : calls[c].pc = "idle") =>
        (is_running <=> /\ Cardinality({t \in TaskIds : Alive(t)}) = 1
                        /\ task \in TaskIds
                        /\ Alive(task))

\* C27: a cycle whose fetch succeeded and that came to a coin whose stored
\* price is 0 and that is in the response has accepted the new tick of that
\* coin.
C27_ZeroPriceNoBlock ==
    \A i \in Coins :
        (ev.cyc.olds[i] = 0 /\ ev.cyc.data[i] # Absent) => i \in ev.cyc.upd

\* C28: whenever a broadcast is suspended in the update of a WebSocket adapter,
\* that update sends what the broadcast is about: the tick in a tick broadcast,
\* the alert in an alert broadcast, and does not raise.
C28_AdapterHandlesBoth ==
    \A t \in TaskIds :
        tk[t].pc = "notify" =>
            WebSocketObserverUpdate(NotifyKwargs(tk[t].kind)) =
                (IF tk[t].kind = "alert" THEN "sent_alert" ELSE "sent_tick")

\* C29: for every coin, latest_ticks holds a tick if and only if the buffer is
\* not empty, and that tick is the last element of the buffer; so it is while
\* a handler is being handed the tick.
C29_LatestIsLastOfBuffer ==
    \A i \in Coins :
        /\ latest_ticks[i] # NoTick <=> price_history[i] # <<>>
        /\ price_history[i] # <<>> =>
              latest_ticks[i] = price_history[i][Len(price_history[i])]

\* C29 witness: a handler is being handed the tick of the first coin, whose new
\* price differs from the price before and has pushed a tick out of the full
\* buffer.
C29_Witness ==
    \E t \in TaskIds :
        /\ tk[t].pc = "notify" /\ tk[t].kind = "tick" /\ tk[t].coin = 1
        /\ Len(recent[1]) = Capacity + 1
        /\ latest_ticks[1] = tk[t].data[1]
        /\ latest_ticks[1] # price_history[1][Len(price_history[1]) - 1]

\* C30: whenever a task is in the sleep of its loop, every snapshot in
\* latest_stats shows the price of the coin's latest tick.
C30_StatsNeverStale ==
    \A t \in TaskIds, c \in Coins :
        (tk[t].pc = "sleep" /\ latest_stats[c].set)
            => latest_stats[c].current_price = latest_ticks[c]

TypeOK ==
    /\ is_running \in BOOLEAN
    /\ task \in TaskIds \cup {None}
    /\ observers \subseteq Observers \cup ChurnObservers
    /\ DOMAIN table = 0..(Size(table) - 1)
    /\ observers = {table[s] : s \in Used(table)}
    /\ \A s, x \in Used(table) : table[s] = table[x] => s = x
    /\ Fill(table) * 5 < (Size(table) - 1) * 3
    /\ nTasks \in 0..MaxTasks
    /\ \A c \in Coins : Len(price_history[c]) <= Capacity

====
